---------------------------- MODULE Spec2Model ----------------------------
(***************************************************************************)
(* The Monkey front end: the Lexer (lexer/lexer.go) and the Pratt Parser   *)
(* (parser/parser.go).  A source text is a sequence of one-byte            *)
(* characters; Go's zero-based indices are kept (input[i] is At(input,i)). *)
(* A Go run-time panic (index out of range) ends the run: it is carried as *)
(* a flag through every operator that can reach it.                        *)
(***************************************************************************)
EXTENDS Integers, Sequences, FiniteSets, TLC

VARIABLES
    l,           \* the Lexer struct: input, position, readPosition, ch
    tok,         \* the token returned by the latest call of l.NextToken by a direct client
    curToken,    \* Parser.curToken
    peekToken,   \* Parser.peekToken
    errors,      \* Parser.errors
    program,     \* program.Statements of the running ParseProgram
    stmt,        \* the stmt local of ParseProgram / of the running statement rule
    pc,          \* where the client of the Lexer or the Parser stands
    advances     \* number of calls of l.NextToken made so far

vars == <<l, tok, curToken, peekToken, errors, program, stmt, pc, advances>>

-----------------------------------------------------------------------------
(* Bounds of the model                                                     *)

MaxLen == 4            \* characters of a source text scanned directly
MaxTokens == 4         \* lexemes of a free-form source text that is parsed
MaxExprTokens == 5     \* lexemes of a well-formed expression
MaxStmts == 2          \* statements of a well-formed let/return program
MaxPastEnd == 5        \* calls of NextToken followed beyond the input's length

-----------------------------------------------------------------------------
(* Bytes                                                                   *)

NUL == "NUL"                       \* the byte 0
HighByte == "E9"                   \* the byte 0xE9, one of the bytes 0x80..0xFF
Whitespace == {" ", "\t", "\n", "\r"}

\* lexer.go isLetter
isLetter(c) ==
    c \in {"a","b","c","d","e","f","g","h","i","j","k","l","m",
           "n","o","p","q","r","s","t","u","v","w","x","y","z",
           "A","B","C","D","E","F","G","H","I","J","K","L","M",
           "N","O","P","Q","R","S","T","U","V","W","X","Y","Z","_"}

\* lexer.go isDigit
isDigit(c) == c \in {"0","1","2","3","4","5","6","7","8","9"}

At(s, i) == s[i + 1]               \* Go's s[i]
Slice(s, a, b) == SubSeq(s, a + 1, b)   \* Go's s[a:b]

-----------------------------------------------------------------------------
(* Tokens                                                                  *)

Token(type, literal) == [Type |-> type, Literal |-> literal]
ZeroToken == Token("", <<>>)       \* Go's zero value of token.Token

\* Go's string(ch) for a byte ch: the UTF-8 encoding of the code point ch, one
\* byte below 0x80 and two bytes from 0x80 on (0xE9 gives 0xC3 0xA9)
ByteToString(c) == IF c = HighByte THEN <<"C3", "A9">> ELSE <<c>>

\* lexer.go newToken
newToken(tokenType, c) == Token(tokenType, ByteToString(c))

\* token.LookupIdent: the keyword table
LookupIdent(ident) ==
    IF ident = <<"l","e","t">> THEN "LET"
    ELSE IF ident = <<"r","e","t","u","r","n">> THEN "RETURN"
    ELSE "IDENT"

\* the one-character tokens of NextToken's switch
SingleCharType(c) ==
    CASE c = "+" -> "PLUS"
      [] c = "-" -> "MINUS"
      [] c = "/" -> "SLASH"
      [] c = "*" -> "ASTERISK"
      [] c = "<" -> "LT"
      [] c = ">" -> "GT"
      [] c = ";" -> "SEMICOLON"
      [] c = "(" -> "LPAREN"
      [] c = ")" -> "RPAREN"
      [] c = "," -> "COMMA"
      [] c = "{" -> "LBRACE"
      [] c = "}" -> "RBRACE"
      [] OTHER -> "ILLEGAL"

-----------------------------------------------------------------------------
(* The Lexer                                                               *)

\* a readChar that starts over at the end of the input instead of moving on
readCharRewind(lx) ==
    [lx EXCEPT !.ch = IF lx.readPosition >= Len(lx.input) THEN NUL
                      ELSE At(lx.input, lx.readPosition),
               !.position = lx.readPosition,
               !.readPosition = IF lx.readPosition >= Len(lx.input) THEN 0
                                ELSE lx.readPosition + 1]

\* lexer.go readChar
readChar(lx) ==
    [lx EXCEPT !.ch = IF lx.readPosition >= Len(lx.input) THEN NUL
                      ELSE At(lx.input, lx.readPosition),
               !.position = lx.readPosition,
               !.readPosition = lx.readPosition + 1]

\* a New that leaves out the first readChar
NewLexerNoRead(input) ==
    [input |-> input, position |-> 0, readPosition |-> 0, ch |-> NUL]

\* lexer.go New
NewLexer(input) ==
    readChar([input |-> input, position |-> 0, readPosition |-> 0, ch |-> NUL])

\* lexer.go peakChar: the index is checked against position, the read is at
\* readPosition, so the read can fall outside the input and panic
peakChar(lx) ==
    IF lx.position >= Len(lx.input) THEN [panic |-> FALSE, ch |-> NUL]
    ELSE IF lx.readPosition < Len(lx.input)
         THEN [panic |-> FALSE, ch |-> At(lx.input, lx.readPosition)]
         ELSE [panic |-> TRUE, ch |-> NUL]

\* lexer.go skipWhitespace
RECURSIVE skipWhitespace(_)
skipWhitespace(lx) ==
    IF lx.ch \in Whitespace THEN skipWhitespace(readChar(lx)) ELSE lx

\* a scan of a word that stops after its first character
SkipLettersOnce(lx) == IF isLetter(lx.ch) THEN readChar(lx) ELSE lx

RECURSIVE SkipLetters(_)
SkipLetters(lx) == IF isLetter(lx.ch) THEN SkipLetters(readChar(lx)) ELSE lx

RECURSIVE SkipDigits(_)
SkipDigits(lx) == IF isDigit(lx.ch) THEN SkipDigits(readChar(lx)) ELSE lx

\* lexer.go readIdentifier
readIdentifier(lx) ==
    LET lx2 == SkipLetters(lx)
    IN  [l |-> lx2, lit |-> Slice(lx.input, lx.position, lx2.position)]

\* lexer.go readNumber
readNumber(lx) ==
    LET lx2 == SkipDigits(lx)
    IN  [l |-> lx2, lit |-> Slice(lx.input, lx.position, lx2.position)]

LexResult(lx, t, panic) == [l |-> lx, tok |-> t, panic |-> panic]

\* the `=` and `!` cases of NextToken: peek, then one or two characters
TwoCharCase(lx, twoType, oneType) ==
    LET pk == peakChar(lx)
    IN  IF pk.panic THEN LexResult(lx, ZeroToken, TRUE)
        ELSE IF pk.ch = "="
             THEN LET lx2 == readChar(lx)
                  IN  LexResult(readChar(lx2),
                                 Token(twoType, ByteToString(lx.ch) \o ByteToString(lx2.ch)),
                                 FALSE)
             ELSE LexResult(readChar(lx), newToken(oneType, lx.ch), FALSE)

\* lexer.go NextToken
NextToken(lx0) ==
    LET lx == skipWhitespace(lx0)
    IN  CASE lx.ch = "=" -> TwoCharCase(lx, "EQ", "ASSIGN")
          [] lx.ch = "!" -> TwoCharCase(lx, "NOT_EQ", "BANG")
          [] lx.ch = NUL -> LexResult(readChar(lx), Token("EOF", <<>>), FALSE)
          [] isLetter(lx.ch) ->
                LET r == readIdentifier(lx)
                IN  LexResult(r.l, Token(LookupIdent(r.lit), r.lit), FALSE)
          [] isDigit(lx.ch) ->
                LET r == readNumber(lx)
                IN  LexResult(r.l, Token("INT", r.lit), FALSE)
          [] OTHER -> LexResult(readChar(lx), newToken(SingleCharType(lx.ch), lx.ch), FALSE)

-----------------------------------------------------------------------------
(* The Parser: its fields and the Lexer it owns, as one value              *)

\* parser.go precedence constants (iota)
LOWEST == 1
EQUALS == 2
LESSGREATER == 3
SUM == 4
PRODUCT == 5
PREFIX == 6
CALL == 7

\* parser.go precedences
precedences(type) ==
    CASE type \in {"EQ", "NOT_EQ"} -> EQUALS
      [] type \in {"LT", "GT"} -> LESSGREATER
      [] type \in {"PLUS", "MINUS"} -> SUM
      [] type \in {"SLASH", "ASTERISK"} -> PRODUCT
      [] OTHER -> 0                      \* not in the map

\* parser.go New: registerPrefix / registerInfix
PrefixTypes == {"IDENT", "INT", "BANG", "MINUS"}
InfixTypes == {"PLUS", "MINUS", "SLASH", "ASTERISK", "NOT_EQ", "EQ", "LT", "GT"}

\* an absent expression (a nil ast.Expression)
NilExpr == [node |-> "nil"]

\* diagnostics, by the format string that builds them
PeekErrorMsg(t, got) == [msg |-> "expected next token to be %s, got %s instead",
                         expected |-> t, got |-> got]
NoPrefixMsg(t) == [msg |-> "no prefix parse function for %s found", type |-> t]
ParseIntMsg(lit) == [msg |-> "could not parse %q as integer", literal |-> lit]

Parser(lx, cur, peek, errs, adv) ==
    [l |-> lx, curToken |-> cur, peekToken |-> peek, errors |-> errs,
     advances |-> adv, panicked |-> FALSE]

\* the two assignments of nextToken, r being what l.NextToken() gave;
\* curToken is assigned before l.NextToken() can panic
Shift(p, r) ==
    [p EXCEPT !.curToken = p.peekToken,
              !.peekToken = IF r.panic THEN p.peekToken ELSE r.tok,
              !.l = r.l,
              !.advances = p.advances + 1,
              !.panicked = r.panic]

\* parser.go nextToken
nextToken(p) == IF p.panicked THEN p ELSE Shift(p, NextToken(p.l))

\* parser.go curTokenIs / peekTokenIs
curTokenIs(p, t) == p.curToken.Type = t
peekTokenIs(p, t) == p.peekToken.Type = t

\* parser.go peekPrecedence / curPrecedence
peekPrecedence(p) ==
    IF precedences(p.peekToken.Type) # 0 THEN precedences(p.peekToken.Type) ELSE LOWEST

\* a curPrecedence that forgets the operator: the right operand is parsed at LOWEST
curPrecedenceLowest(p) == LOWEST

curPrecedence(p) ==
    IF precedences(p.curToken.Type) # 0 THEN precedences(p.curToken.Type) ELSE LOWEST

\* a peekError that starts the list over with its diagnostic
peekErrorReplace(p, t) ==
    [p EXCEPT !.errors = <<PeekErrorMsg(t, p.peekToken.Type)>>]

\* parser.go peekError
peekError(p, t) ==
    [p EXCEPT !.errors = Append(p.errors, PeekErrorMsg(t, p.peekToken.Type))]

\* an expectPeek that reports the match without moving to the token
expectPeekNoAdvance(p, t) ==
    IF peekTokenIs(p, t) THEN [p |-> p, ok |-> TRUE]
    ELSE [p |-> peekError(p, t), ok |-> FALSE]

\* parser.go expectPeek
expectPeek(p, t) ==
    IF peekTokenIs(p, t) THEN [p |-> nextToken(p), ok |-> TRUE]
    ELSE [p |-> peekError(p, t), ok |-> FALSE]

\* a noPrefixParseFnError that records nothing
noPrefixParseFnErrorSilent(p, t) == p

\* parser.go noPrefixParseFnError
noPrefixParseFnError(p, t) ==
    [p EXCEPT !.errors = Append(p.errors, NoPrefixMsg(t))]

-----------------------------------------------------------------------------
(* strconv.ParseInt(s, 0, 64) on a run of digits                           *)

DigitVal(c) ==
    CASE c = "0" -> 0 [] c = "1" -> 1 [] c = "2" -> 2 [] c = "3" -> 3
      [] c = "4" -> 4 [] c = "5" -> 5 [] c = "6" -> 6 [] c = "7" -> 7
      [] c = "8" -> 8 [] c = "9" -> 9

RECURSIVE NumVal(_, _)
NumVal(s, base) ==
    IF s = <<>> THEN 0
    ELSE NumVal(SubSeq(s, 1, Len(s) - 1), base) * base + DigitVal(s[Len(s)])

RECURSIVE StripZeros(_)
StripZeros(s) == IF s # <<>> /\ s[1] = "0" THEN StripZeros(Tail(s)) ELSE s

\* 2^63 - 1 in decimal, digit by digit
MaxInt64Digits ==
    <<"9","2","2","3","3","7","2","0","3","6","8","5","4","7","7","5","8","0","7">>

RECURSIVE DigitsLeq(_, _)
DigitsLeq(s, t) ==      \* s <= t for digit strings of one length
    IF s = <<>> THEN TRUE
    ELSE IF DigitVal(s[1]) # DigitVal(t[1]) THEN DigitVal(s[1]) < DigitVal(t[1])
    ELSE DigitsLeq(Tail(s), Tail(t))

\* base 0: a leading 0 selects base 8 and is dropped; 2^63 - 1 is 21 octal sevens
ParseInt(s) ==
    IF s[1] = "0"
    THEN LET d == Tail(s)
         IN  IF \E i \in 1..Len(d) : DigitVal(d[i]) >= 8 THEN [ok |-> FALSE, value |-> 0]
             ELSE IF Len(StripZeros(d)) > 21 THEN [ok |-> FALSE, value |-> 0]
             ELSE [ok |-> TRUE, value |-> NumVal(d, 8)]
    ELSE IF Len(s) > 19 \/ (Len(s) = 19 /\ ~DigitsLeq(s, MaxInt64Digits))
         THEN [ok |-> FALSE, value |-> 0]
         ELSE [ok |-> TRUE, value |-> NumVal(s, 10)]

-----------------------------------------------------------------------------
(* Expressions                                                             *)

ParseResult(p, exp) == [p |-> p, exp |-> exp]

\* parser.go parseIdentifier
parseIdentifier(p) ==
    ParseResult(p, [node |-> "Identifier", Token |-> p.curToken,
                    Value |-> p.curToken.Literal])

\* a parseIntegerLiteral that omits the node without a diagnostic
parseIntegerLiteralSilent(p) ==
    IF ~ParseInt(p.curToken.Literal).ok THEN ParseResult(p, NilExpr)
    ELSE ParseResult(p, [node |-> "IntegerLiteral", Token |-> p.curToken,
                         Value |-> ParseInt(p.curToken.Literal).value])

\* parser.go parseIntegerLiteral
parseIntegerLiteral(p) ==
    LET r == ParseInt(p.curToken.Literal)
    IN  IF ~r.ok
        THEN ParseResult([p EXCEPT !.errors =
                              Append(p.errors, ParseIntMsg(p.curToken.Literal))],
                         NilExpr)
        ELSE ParseResult(p, [node |-> "IntegerLiteral", Token |-> p.curToken,
                             Value |-> r.value])

RECURSIVE parseExpression(_, _)
RECURSIVE parsePrefixExpression(_)
RECURSIVE parseInfixExpression(_, _)
RECURSIVE InfixLoop(_, _, _)
RECURSIVE LoopAgain(_, _)

\* the PrefixExpression node, r being what parseExpression(PREFIX) gave
PrefixNode(p, r) ==
    ParseResult(r.p, [node |-> "PrefixExpression", Token |-> p.curToken,
                      Operator |-> p.curToken.Literal, Right |-> r.exp])

\* parser.go parsePrefixExpression
parsePrefixExpression(p) ==
    PrefixNode(p, parseExpression(nextToken(p), PREFIX))

\* the InfixExpression node, r being what parseExpression(precedence) gave
InfixNode(p, left, r) ==
    ParseResult(r.p, [node |-> "InfixExpression", Token |-> p.curToken,
                      Operator |-> p.curToken.Literal, Left |-> left,
                      Right |-> r.exp])

\* parser.go parseInfixExpression
parseInfixExpression(p, left) ==
    InfixNode(p, left, parseExpression(nextToken(p), curPrecedence(p)))

\* the next turn of the loop, r being what the infix handler gave
LoopAgain(r, precedence) == InfixLoop(r.p, precedence, r.exp)

\* the for loop of parseExpression
InfixLoop(p, precedence, leftExp) ==
    IF p.panicked THEN ParseResult(p, leftExp)
    ELSE IF ~peekTokenIs(p, "SEMICOLON") /\ precedence < peekPrecedence(p)
    THEN IF p.peekToken.Type \notin InfixTypes THEN ParseResult(p, leftExp)
         ELSE LoopAgain(parseInfixExpression(nextToken(p), leftExp), precedence)
    ELSE ParseResult(p, leftExp)

\* prefixParseFns[p.curToken.Type]()
prefixParseFn(p) ==
    CASE p.curToken.Type = "IDENT" -> parseIdentifier(p)
      [] p.curToken.Type = "INT" -> parseIntegerLiteral(p)
      [] OTHER -> parsePrefixExpression(p)

\* parser.go parseExpression
parseExpression(p, precedence) ==
    IF p.panicked THEN ParseResult(p, NilExpr)
    ELSE IF p.curToken.Type \notin PrefixTypes
    THEN ParseResult(noPrefixParseFnError(p, p.curToken.Type), NilExpr)
    ELSE LoopAgain(prefixParseFn(p), precedence)

\* the end of parseExpressionStatement, r being what parseExpression(LOWEST) gave
OptionalSemicolon(p, r) ==
    [p |-> IF ~r.p.panicked /\ peekTokenIs(r.p, "SEMICOLON")
           THEN nextToken(r.p) ELSE r.p,
     stmt |-> [node |-> "ExpressionStatement", nil |-> FALSE,
               Token |-> p.curToken, Expression |-> r.exp]]

\* parser.go parseExpressionStatement
parseExpressionStatement(p) == OptionalSemicolon(p, parseExpression(p, LOWEST))

-----------------------------------------------------------------------------
(* Source texts                                                            *)

SeqsUpTo(S, n) == UNION {[1..k -> S] : k \in 0..n}

\* characters of the texts given to the Lexer alone
LexAlphabet == {"=", "!", "+", "a", "1", " ", NUL, "@", HighByte}
LexInputs == SeqsUpTo(LexAlphabet, MaxLen)

\* lexemes
LexLet == <<"l","e","t">>
LexReturn == <<"r","e","t","u","r","n">>
LexEq == <<"=","=">>
LexNotEq == <<"!","=">>
TooBig == <<"9","2","2","3","3","7","2","0","3","6","8","5","4","7","7","5","8","0","8">>

RECURSIVE Join(_)
Join(ws) ==       \* the lexemes, one space between two of them
    IF ws = <<>> THEN <<>>
    ELSE IF Len(ws) = 1 THEN ws[1]
    ELSE ws[1] \o <<" ">> \o Join(Tail(ws))

\* free-form texts: every sequence of these lexemes
FreeLexemes == {LexLet, LexReturn, <<"a">>, <<"5">>, <<"=">>, <<";">>, <<"!">>}
FreeForms == SeqsUpTo(FreeLexemes, MaxTokens)

\* well-formed expressions: units (prefix operators, then an operand) with a
\* binary operator between two of them
Operands == {<<"a">>, <<"b">>}
PrefixOps == {<<"-">>, <<"!">>}
BinaryOps == {LexEq, LexNotEq, <<"<">>, <<">">>, <<"+">>, <<"-">>, <<"*">>, <<"/">>}

RECURSIVE UnitForms(_)
UnitForms(n) ==       \* of exactly n lexemes
    IF n < 1 THEN {}
    ELSE IF n = 1 THEN {<<o>> : o \in Operands}
    ELSE {<<q>> \o u : q \in PrefixOps, u \in UnitForms(n - 1)}

RECURSIVE ExprFormsOf(_)
ExprFormsOf(n) ==     \* of exactly n lexemes
    UnitForms(n) \cup
    UNION {{e \o <<b>> \o u : e \in ExprFormsOf(n - 1 - k), b \in BinaryOps,
                              u \in UnitForms(k)} : k \in 1..(n - 2)}

WellFormedExprs == UNION {ExprFormsOf(n) : n \in 1..MaxExprTokens}
ExprForms == WellFormedExprs \cup {e \o <<<<";">>>> : e \in WellFormedExprs}

\* integer literals as expression statements
IntLiterals == {<<"0">>, <<"5">>, <<"1","0">>, <<"0","1","0">>, <<"0","0","7">>,
                <<"0","9">>, <<"1","2","8">>, TooBig}
IntForms == {<<i>> : i \in IntLiterals} \cup {<<i, <<";">>>> : i \in IntLiterals}
               \cup {<<<<"-">>, i, <<";">>>> : i \in IntLiterals}

\* well-formed let and return statements: the value is skipped up to the `;`
Values == {<<>>, <<<<"5">>>>, <<<<"a">>, <<"+">>, <<"5">>>>, <<LexLet>>, <<<<"=">>>>}
Names == {<<"a">>, <<"x">>}
LetForms == {<<LexLet, n, <<"=">>>> \o v \o <<<<";">>>> : n \in Names, v \in Values}
ReturnForms == {<<LexReturn>> \o v \o <<<<";">>>> : v \in Values}

RECURSIVE StmtFormsOf(_)
StmtFormsOf(n) ==     \* of exactly n statements
    IF n = 0 THEN {<<>>}
    ELSE {s \o r : s \in LetForms \cup ReturnForms, r \in StmtFormsOf(n - 1)}

StmtForms == UNION {StmtFormsOf(n) : n \in 0..MaxStmts}

Texts(forms) == {Join(ws) : ws \in forms}
ParseInputs == Texts(FreeForms) \cup Texts(ExprForms) \cup Texts(IntForms) \cup Texts(StmtForms)

-----------------------------------------------------------------------------
(* Statements                                                              *)

NilStmt == [node |-> "nil", nil |-> TRUE]      \* the nil ast.Statement
\* a nil pointer of a statement type, held in an ast.Statement
NilOf(node) == [node |-> node, nil |-> TRUE]

ThisParser == Parser(l, curToken, peekToken, errors, advances)

\* the Parser's fields after a step that left it as p
Becomes(p) ==
    /\ l' = p.l
    /\ curToken' = p.curToken
    /\ peekToken' = p.peekToken
    /\ errors' = p.errors
    /\ advances' = p.advances

-----------------------------------------------------------------------------
(* A client of the Lexer alone (as repl.go): New, then NextToken again and  *)
(* again                                                                   *)

LexInit ==
    /\ l \in {NewLexer(i) : i \in LexInputs}
    /\ tok = ZeroToken
    /\ curToken = ZeroToken
    /\ peekToken = ZeroToken
    /\ errors = <<>>
    /\ program = <<>>
    /\ stmt = NilStmt
    /\ pc = "start"
    /\ advances = 0

CallNextToken ==
    /\ pc \in {"start", "scanning"}
    /\ l.position < Len(l.input) + MaxPastEnd
    /\ LET r == NextToken(l)
       IN  /\ l' = r.l
           /\ tok' = IF r.panic THEN tok ELSE r.tok
           /\ pc' = IF r.panic THEN "panic" ELSE "scanning"
    /\ advances' = advances + 1
    /\ UNCHANGED <<curToken, peekToken, errors, program, stmt>>

LexNext == CallNextToken

LexSpec == LexInit /\ [][LexNext]_vars

-----------------------------------------------------------------------------
(* parser.New, then ParseProgram                                           *)

Init ==
    /\ l \in {NewLexer(i) : i \in ParseInputs}
    /\ tok = ZeroToken
    /\ curToken = ZeroToken
    /\ peekToken = ZeroToken
    /\ errors = <<>>
    /\ program = <<>>
    /\ stmt = NilStmt
    /\ pc = "start"
    /\ advances = 0

\* where a step goes on, unless the Lexer panicked under it
Goes(p, to) == pc' = IF p.panicked THEN "panic" ELSE to

\* a step that leaves the Parser as p and goes on at `to`
Step(p, to) == Becomes(p) /\ Goes(p, to)

\* parseLetStatement after expectPeek(IDENT), r being what expectPeek gave:
\* the name is the token expectPeek moved to
LetIdentStep(r, letToken) ==
    /\ Becomes(r.p)
    /\ IF r.ok
       THEN /\ stmt' = [node |-> "LetStatement", nil |-> FALSE, Token |-> letToken,
                        Name |-> [node |-> "Identifier", Token |-> r.p.curToken,
                                  Value |-> r.p.curToken.Literal]]
            /\ Goes(r.p, "letAssign")
       ELSE /\ stmt' = NilOf("LetStatement")
            /\ Goes(r.p, "parsed")

\* parseLetStatement after expectPeek(ASSIGN), r being what expectPeek gave
LetAssignStep(r) ==
    /\ Becomes(r.p)
    /\ IF r.ok
       THEN /\ stmt' = stmt
            /\ Goes(r.p, "letSkip")
       ELSE /\ stmt' = NilOf("LetStatement")
            /\ Goes(r.p, "parsed")

\* the step that is parseExpressionStatement, r being what it gave
ExprStep(r) == Becomes(r.p) /\ stmt' = r.stmt /\ Goes(r.p, "parsed")

\* parser.go New: Read two tokens, so curToken and peekToken are both set
New ==
    /\ pc = "start"
    /\ Step(nextToken(nextToken(ThisParser)), "loop")
    /\ UNCHANGED <<tok, program, stmt>>

\* ParseProgram: the loop ends on EOF
ParseProgramReturn ==
    /\ pc = "loop"
    /\ curTokenIs(ThisParser, "EOF")
    /\ pc' = "done"
    /\ UNCHANGED <<l, tok, curToken, peekToken, errors, program, stmt, advances>>

\* parseStatement, case LET; parseLetStatement up to its first expectPeek
LetExpectIdent ==
    /\ pc = "loop"
    /\ curTokenIs(ThisParser, "LET")
    /\ LetIdentStep(expectPeek(ThisParser, "IDENT"), curToken)
    /\ UNCHANGED <<tok, program>>

\* parseLetStatement: its second expectPeek
LetExpectAssign ==
    /\ pc = "letAssign"
    /\ LetAssignStep(expectPeek(ThisParser, "ASSIGN"))
    /\ UNCHANGED <<tok, program>>

\* parseLetStatement: one turn of the loop that skips to the semicolon
LetSkip ==
    /\ pc = "letSkip"
    /\ ~curTokenIs(ThisParser, "SEMICOLON")
    /\ advances < Len(l.input) + MaxPastEnd
    /\ Step(nextToken(ThisParser), "letSkip")
    /\ UNCHANGED <<tok, program, stmt>>

\* parseLetStatement: return stmt
LetReturn ==
    /\ pc = "letSkip"
    /\ curTokenIs(ThisParser, "SEMICOLON")
    /\ pc' = "parsed"
    /\ UNCHANGED <<l, tok, curToken, peekToken, errors, program, stmt, advances>>

\* parseStatement, case RETURN; parseReturnStatement up to its loop
ReturnAdvance ==
    /\ pc = "loop"
    /\ curTokenIs(ThisParser, "RETURN")
    /\ Step(nextToken(ThisParser), "returnSkip")
    /\ stmt' = [node |-> "ReturnStatement", nil |-> FALSE, Token |-> curToken]
    /\ UNCHANGED <<tok, program>>

\* parseReturnStatement: one turn of the loop that skips to the semicolon
ReturnSkip ==
    /\ pc = "returnSkip"
    /\ ~curTokenIs(ThisParser, "SEMICOLON")
    /\ advances < Len(l.input) + MaxPastEnd
    /\ Step(nextToken(ThisParser), "returnSkip")
    /\ UNCHANGED <<tok, program, stmt>>

\* parseReturnStatement: return stmt
ReturnReturn ==
    /\ pc = "returnSkip"
    /\ curTokenIs(ThisParser, "SEMICOLON")
    /\ pc' = "parsed"
    /\ UNCHANGED <<l, tok, curToken, peekToken, errors, program, stmt, advances>>

\* parseStatement, default case: parseExpressionStatement
ExpressionStatement ==
    /\ pc = "loop"
    /\ curToken.Type \notin {"EOF", "LET", "RETURN"}
    /\ ExprStep(parseExpressionStatement(ThisParser))
    /\ UNCHANGED <<tok, program>>

\* ParseProgram: if stmt != nil { append }; p.nextToken().  stmt is an
\* ast.Statement: it is nil only if no pointer type was stored in it
AppendStatement ==
    /\ pc = "parsed"
    /\ program' = IF stmt # NilStmt THEN Append(program, stmt) ELSE program
    /\ Step(nextToken(ThisParser), "loop")
    /\ UNCHANGED <<tok, stmt>>

Next ==
    \/ New
    \/ ParseProgramReturn
    \/ LetExpectIdent
    \/ LetExpectAssign
    \/ LetSkip
    \/ LetReturn
    \/ ReturnAdvance
    \/ ReturnSkip
    \/ ReturnReturn
    \/ ExpressionStatement
    \/ AppendStatement

Spec == Init /\ [][Next]_vars

-----------------------------------------------------------------------------
(* Reading a source text back, for the statements below                    *)

RECURSIVE SplitOn(_, _)
SplitOn(s, sep) ==     \* the parts of s between the occurrences of sep
    IF \A i \in 1..Len(s) : s[i] # sep THEN <<s>>
    ELSE LET k == CHOOSE i \in 1..Len(s) :
                      s[i] = sep /\ \A j \in 1..(i - 1) : s[j] # sep
         IN  <<SubSeq(s, 1, k - 1)>> \o SplitOn(SubSeq(s, k + 1, Len(s)), sep)

Words(s) == IF s = <<>> THEN <<>> ELSE SplitOn(s, " ")
Semi == <<";">>
Front(s) == SubSeq(s, 1, Len(s) - 1)

IsIdentWord(w) ==
    w # <<>> /\ (\A i \in 1..Len(w) : isLetter(w[i])) /\ w \notin {LexLet, LexReturn}
IsIntWord(w) == w # <<>> /\ \A i \in 1..Len(w) : isDigit(w[i])

NoNul(s) == \A i \in 1..Len(s) : s[i] # NUL

-----------------------------------------------------------------------------
(* The reference grammar of expressions: binary operators in four levels,  *)
(* each associating to the left, below the prefix operators                *)

Level(op) ==
    CASE op \in {LexEq, LexNotEq} -> 1
      [] op \in {<<"<">>, <<">">>} -> 2
      [] op \in {<<"+">>, <<"-">>} -> 3
      [] op \in {<<"*">>, <<"/">>} -> 4

RECURSIVE WellFormed(_, _, _)
WellFormed(ws, wantOperand, ints) ==
    IF ws = <<>> THEN ~wantOperand
    ELSE IF wantOperand
    THEN \/ ws[1] \in PrefixOps /\ WellFormed(Tail(ws), TRUE, ints)
         \/ (IsIdentWord(ws[1]) \/ (ints /\ IsIntWord(ws[1])))
              /\ WellFormed(Tail(ws), FALSE, ints)
    ELSE ws[1] \in BinaryOps /\ WellFormed(Tail(ws), TRUE, ints)

\* an operator in binary position: it follows an operand
BinaryAt(ws) ==
    {i \in 2..Len(ws) : ws[i] \in BinaryOps
                          /\ (IsIdentWord(ws[i - 1]) \/ IsIntWord(ws[i - 1]))}

\* the root: the last of the operators of the lowest level
Root(ws) ==
    CHOOSE i \in BinaryAt(ws) :
        \A j \in BinaryAt(ws) :
            \/ Level(ws[i]) < Level(ws[j])
            \/ Level(ws[i]) = Level(ws[j]) /\ j <= i

RECURSIVE Reference(_)
Reference(ws) ==       \* fully parenthesised
    IF BinaryAt(ws) = {}
    THEN IF Len(ws) = 1 THEN ws
         ELSE <<<<"(">>, ws[1]>> \o Reference(Tail(ws)) \o <<<<")">>>>
    ELSE <<<<"(">>>> \o Reference(SubSeq(ws, 1, Root(ws) - 1)) \o <<ws[Root(ws)]>>
             \o Reference(SubSeq(ws, Root(ws) + 1, Len(ws))) \o <<<<")">>>>

RECURSIVE Render(_)
Render(exp) ==         \* the tree the Parser built, fully parenthesised
    CASE exp.node = "Identifier" -> <<exp.Value>>
      [] exp.node = "IntegerLiteral" -> <<exp.Token.Literal>>
      [] exp.node = "PrefixExpression" ->
            <<<<"(">>, exp.Operator>> \o Render(exp.Right) \o <<<<")">>>>
      [] exp.node = "InfixExpression" ->
            <<<<"(">>>> \o Render(exp.Left) \o <<exp.Operator>> \o Render(exp.Right)
                \o <<<<")">>>>
      [] OTHER -> <<<<"n","i","l">>>>

InputWords == Words(l.input)
\* the text is one expression statement over identifiers, with or without `;`
ExprText(ws, ints) ==
    /\ ws # <<>>
    /\ WellFormed(IF ws[Len(ws)] = Semi THEN Front(ws) ELSE ws, TRUE, ints)
ExprOf(ws) == IF ws[Len(ws)] = Semi THEN Front(ws) ELSE ws

-----------------------------------------------------------------------------
(* C1: for every expression statement built from identifiers, the prefix   *)
(* operators - and ! and the eight binary operators, parseExpression(LOWEST)*)
(* builds the tree of the reference grammar: equal binding power nests to  *)
(* the left, higher binding power nests below lower, a prefix operator     *)
(* binds tighter than every binary operator.                               *)
C1_PrattBuildsReferenceTree ==
    (pc = "parsed" /\ program = <<>> /\ ExprText(InputWords, FALSE))
        => /\ stmt.node = "ExpressionStatement"
           /\ ~stmt.nil
           /\ Render(stmt.Expression) = Reference(ExprOf(InputWords))
           /\ errors = <<>>

\* `a + b * a` has been parsed as (a + (b * a))
C1_Witness ==
    /\ pc = "parsed"
    /\ InputWords = <<<<"a">>, <<"+">>, <<"b">>, <<"*">>, <<"a">>>>
    /\ Render(stmt.Expression) =
         << <<"(">>, <<"a">>, <<"+">>, <<"(">>, <<"b">>, <<"*">>, <<"a">>,
            <<")">>, <<")">> >>


-----------------------------------------------------------------------------
(* C2: for every finite source text ParseProgram finds the current token   *)
(* to be end-of-input and returns after a number of token advances bounded *)
(* by the input length (each token is pulled once, then end-of-input at    *)
(* most three times), with or without a `;` after a let or return.         *)
C2_AdvancesBounded == advances <= Len(l.input) + 3

-----------------------------------------------------------------------------
(* C3: on a text of operator characters NextToken returns the right token  *)
(* at every position, the last included: == is EQ, != is NOT_EQ, a lone =  *)
(* is ASSIGN, a lone ! is BANG; the peek raises no error and the cursor    *)
(* moves by the length of the token.                                       *)
OperatorText(s) == \A i \in 1..Len(s) : s[i] \in {"=", "!", "+"}

ExpectedToken(s, i) ==     \* the token that starts at s[i], Go's index
    LET c == At(s, i)
        two == i + 1 < Len(s) /\ At(s, i + 1) = "="
    IN  CASE c = "=" /\ two -> Token("EQ", <<"=", "=">>)
          [] c = "=" /\ ~two -> Token("ASSIGN", <<"=">>)
          [] c = "!" /\ two -> Token("NOT_EQ", <<"!", "=">>)
          [] c = "!" /\ ~two -> Token("BANG", <<"!">>)
          [] OTHER -> Token("PLUS", <<"+">>)

C3_OperatorTokens ==
    [][(pc \in {"start", "scanning"} /\ OperatorText(l.input)
          /\ l.position < Len(l.input))
         => /\ pc' = "scanning"
            /\ tok' = ExpectedToken(l.input, l.position)
            /\ l'.position = l.position + Len(tok'.Literal)]_vars

-----------------------------------------------------------------------------
(* C4: once NextToken has returned the end-of-input token, every later     *)
(* call on the same Lexer returns it again and raises no error.            *)
C4_EofForever ==
    [][(pc = "scanning" /\ tok.Type = "EOF")
         => (pc' = "scanning" /\ tok' = Token("EOF", <<>>))]_vars

\* C4 as amended: the same, for a text that holds no NUL byte
C4_EofForeverWithoutNul ==
    [][(pc = "scanning" /\ tok.Type = "EOF" /\ NoNul(l.input))
         => (pc' = "scanning" /\ tok' = Token("EOF", <<>>))]_vars

\* end-of-input has been returned four times over on a text of two tokens
C4_Witness ==
    /\ pc = "scanning"
    /\ l.input = <<"a", " ", "1">>
    /\ tok = Token("EOF", <<>>)
    /\ advances = 6

-----------------------------------------------------------------------------
(* C5: a let statement whose identifier is not followed by `=` (let x 5;)  *)
(* gets exactly one diagnostic, `expected next token to be ASSIGN, got     *)
(* <found> instead`, and no element of Program.Statements is a             *)
(* LetStatement.                                                           *)
LetWithoutAssign(ws) ==
    /\ Len(ws) = 4
    /\ ws[1] = LexLet
    /\ IsIdentWord(ws[2])
    /\ IsIntWord(ws[3]) \/ IsIdentWord(ws[3])
    /\ ws[4] = Semi

C5_FailedLetOmitted ==
    (pc = "done" /\ LetWithoutAssign(InputWords))
        => /\ errors = <<PeekErrorMsg("ASSIGN", IF IsIntWord(InputWords[3])
                                                  THEN "INT" ELSE "IDENT")>>
           /\ \A i \in 1..Len(program) : program[i].node # "LetStatement"

-----------------------------------------------------------------------------
(* C6: in every state of a Lexer after New, readPosition = position + 1,   *)
(* and ch is input[position] when position < len(input) and NUL otherwise. *)
C6_CursorInvariant ==
    /\ l.readPosition = l.position + 1
    /\ l.ch = IF l.position < Len(l.input) THEN At(l.input, l.position) ELSE NUL

\* the cursor has been moved past the end of a text of three characters
C6_Witness ==
    /\ pc = "scanning"
    /\ l.input = <<"a", "=", "1">>
    /\ l.position = Len(l.input) + 2

-----------------------------------------------------------------------------
(* C7: an integer literal within the signed 64-bit range yields an         *)
(* IntegerLiteral whose value is the decimal number its text denotes, and  *)
(* no diagnostic; `could not parse ... as integer` is recorded, and the    *)
(* node omitted, only when the text does not fit 64 bits.                  *)
FitsInt64(d) ==
    \/ Len(StripZeros(d)) < 19
    \/ Len(StripZeros(d)) = 19 /\ DigitsLeq(StripZeros(d), MaxInt64Digits)

IntText(ws) ==
    /\ Len(ws) \in {1, 2}
    /\ IsIntWord(ws[1])
    /\ Len(ws) = 2 => ws[2] = Semi

C7_DecimalValue ==
    (pc = "parsed" /\ program = <<>> /\ IntText(InputWords))
        => IF FitsInt64(InputWords[1])
           THEN /\ errors = <<>>
                /\ stmt.Expression.node = "IntegerLiteral"
                /\ stmt.Expression.Value = NumVal(InputWords[1], 10)
           ELSE /\ errors = <<ParseIntMsg(InputWords[1])>>
                /\ stmt.Expression = NilExpr

-----------------------------------------------------------------------------
(* C8: expectPeek(t), when the peek token is not of kind t, appends one    *)
(* diagnostic naming t and the kind found, returns false and leaves        *)
(* curToken, peekToken and the Lexer alone, and the statement rule returns *)
(* no node; when the peek token is of kind t it advances exactly one       *)
(* token, appends no diagnostic and returns true.                          *)
Expecting(t) ==
    \/ t = "IDENT" /\ pc = "loop" /\ curToken.Type = "LET"
    \/ t = "ASSIGN" /\ pc = "letAssign"

C8_ExpectPeek ==
    [][\A t \in {"IDENT", "ASSIGN"} :
         Expecting(t) =>
           IF peekToken.Type = t
           THEN /\ curToken' = peekToken
                /\ advances' = advances + 1
                /\ errors' = errors
                /\ pc' = IF t = "IDENT" THEN "letAssign" ELSE "letSkip"
           ELSE /\ errors' = Append(errors, PeekErrorMsg(t, peekToken.Type))
                /\ curToken' = curToken
                /\ peekToken' = peekToken
                /\ l' = l
                /\ advances' = advances
                /\ stmt'.nil
                /\ pc' = "parsed"]_vars

-----------------------------------------------------------------------------
(* C9: a program of n well-formed statements, each `let <identifier> =     *)
(* <tokens>;` or `return <tokens>;`, gives exactly n statements in source  *)
(* order, the i-th a LetStatement with the i-th bound name or a            *)
(* ReturnStatement, and no diagnostic; each rule stops on its own `;` and  *)
(* the next statement starts at the token after it.                        *)
WellFormedStmt(c) ==
    /\ c # <<>>
    /\ \/ c[1] = LexLet /\ Len(c) >= 3 /\ IsIdentWord(c[2]) /\ c[3] = <<"=">>
       \/ c[1] = LexReturn

\* the statements of a text, each without its `;`
StmtsOf(ws) == Front(SplitOn(ws, Semi))

LetReturnText(ws) ==
    /\ ws # <<>>
    /\ ws[Len(ws)] = Semi
    /\ \A i \in 1..Len(StmtsOf(ws)) : WellFormedStmt(StmtsOf(ws)[i])

Expected(c) ==
    IF c[1] = LexLet THEN <<"LetStatement", c[2]>> ELSE <<"ReturnStatement", <<>>>>

Summary(st) ==
    IF st.nil THEN <<"nil", <<>>>>
    ELSE IF st.node = "LetStatement" THEN <<"LetStatement", st.Name.Value>>
    ELSE <<st.node, <<>>>>

C9_LetReturnPrograms ==
    LetReturnText(InputWords) =>
        /\ pc # "panic"
        /\ errors = <<>>
        /\ Len(program) <= Len(StmtsOf(InputWords))
        /\ \A i \in 1..Len(program) :
               Summary(program[i]) = Expected(StmtsOf(InputWords)[i])
        /\ pc = "done" => Len(program) = Len(StmtsOf(InputWords))
        /\ pc = "parsed" => curToken.Type = "SEMICOLON"
        /\ pc = "loop" =>
               IF Len(program) = Len(StmtsOf(InputWords))
               THEN curToken.Type = "EOF"
               ELSE curToken.Literal = StmtsOf(InputWords)[Len(program) + 1][1]

\* `let x = 5 ; return a + 5 ;` has been parsed to the end
C9_Witness ==
    /\ pc = "done"
    /\ InputWords = <<LexLet, <<"x">>, <<"=">>, <<"5">>, Semi,
                      LexReturn, <<"a">>, <<"+">>, <<"5">>, Semi>>
    /\ Len(program) = 2
    /\ Summary(program[1]) = <<"LetStatement", <<"x">>>>
    /\ Summary(program[2]) = <<"ReturnStatement", <<>>>>

-----------------------------------------------------------------------------
(* C10: the terminator of an expression statement is optional: for every   *)
(* well-formed expression e, the texts `e` and `e;` both give a Program of *)
(* exactly one ExpressionStatement wrapping the tree of e, with no         *)
(* diagnostic; after parseExpressionStatement the current token is the `;` *)
(* when one follows and the last token of e otherwise.                     *)
C10_TerminatorOptional ==
    ExprText(InputWords, TRUE) =>
        /\ pc # "panic"
        /\ errors = <<>>
        /\ (pc = "parsed" /\ program = <<>>) =>
               /\ stmt.node = "ExpressionStatement"
               /\ Render(stmt.Expression) = Reference(ExprOf(InputWords))
               /\ curToken.Literal = InputWords[Len(InputWords)]
        /\ pc = "done" =>
               /\ Len(program) = 1
               /\ program[1].node = "ExpressionStatement"
               /\ Render(program[1].Expression) = Reference(ExprOf(InputWords))

-----------------------------------------------------------------------------
(* C11: for every byte that is not whitespace, not an operator or          *)
(* punctuation character, not a letter or underscore, not a digit and not  *)
(* NUL, NextToken returns an ILLEGAL token whose literal is exactly that   *)
(* one character, moves the cursor by exactly one character and raises no  *)
(* error, and the next call goes on at the character after it.             *)
OperatorChars == {"=", "+", "-", "!", "/", "*", "<", ">", ";", "(", ")", ",", "{", "}"}

IllegalByte(c) ==
    /\ c \notin Whitespace \cup OperatorChars \cup {NUL}
    /\ ~isLetter(c)
    /\ ~isDigit(c)

\* the character the cursor shows at index i
ChAt(s, i) == IF i < Len(s) THEN At(s, i) ELSE NUL

C11_IllegalToken ==
    [][(pc \in {"start", "scanning"} /\ IllegalByte(l.ch))
         => /\ pc' = "scanning"
            /\ tok' = Token("ILLEGAL", <<l.ch>>)
            /\ l'.position = l.position + 1
            /\ l'.ch = ChAt(l.input, l.position + 1)]_vars

-----------------------------------------------------------------------------
(* C12: maximal munch without skipping: when the current character is a    *)
(* letter or underscore (a digit), NextToken returns a token whose literal *)
(* is the longest run of letters and underscores (of digits) that starts   *)
(* there, and leaves the cursor on the first character after the run, so   *)
(* that the next token starts exactly there.                               *)
RECURSIVE LetterRunEnd(_, _)
LetterRunEnd(s, i) ==      \* Go's index of the first character after the run
    IF i < Len(s) /\ isLetter(At(s, i)) THEN LetterRunEnd(s, i + 1) ELSE i

RECURSIVE DigitRunEnd(_, _)
DigitRunEnd(s, i) ==
    IF i < Len(s) /\ isDigit(At(s, i)) THEN DigitRunEnd(s, i + 1) ELSE i

C12_MaximalMunch ==
    [][/\ (pc \in {"start", "scanning"} /\ isLetter(l.ch))
          => /\ pc' = "scanning"
             /\ tok'.Literal = Slice(l.input, l.position, LetterRunEnd(l.input, l.position))
             /\ tok'.Type = LookupIdent(tok'.Literal)
             /\ l'.position = LetterRunEnd(l.input, l.position)
             /\ l'.ch = ChAt(l.input, l'.position)
       /\ (pc \in {"start", "scanning"} /\ isDigit(l.ch))
          => /\ pc' = "scanning"
             /\ tok' = Token("INT", Slice(l.input, l.position,
                                          DigitRunEnd(l.input, l.position)))
             /\ l'.position = DigitRunEnd(l.input, l.position)
             /\ l'.ch = ChAt(l.input, l'.position)]_vars

\* `aa11` has been scanned as the word aa, then the number 11
C12_Witness ==
    /\ pc = "scanning"
    /\ l.input = <<"a", "a", "1", "1">>
    /\ tok = Token("INT", <<"1", "1">>)
    /\ advances = 2
    /\ l.position = 4

-----------------------------------------------------------------------------
(* C13: when parseExpression is entered with a current token whose kind    *)
(* has no prefix handler (any kind but IDENT, INT, BANG, MINUS), it        *)
(* appends exactly one diagnostic `no prefix parse function for <kind>     *)
(* found`, yields no expression and consumes no token.                     *)
YieldsNothing(p, r) ==
    /\ r.exp = NilExpr
    /\ r.p.errors = Append(p.errors, NoPrefixMsg(p.curToken.Type))
    /\ r.p.curToken = p.curToken
    /\ r.p.peekToken = p.peekToken
    /\ r.p.l = p.l
    /\ r.p.advances = p.advances

C13_NoPrefixHandler ==
    (pc \notin {"start", "panic"} /\ curToken.Type \notin PrefixTypes)
        => \A precedence \in LOWEST..CALL :
               YieldsNothing(ThisParser, parseExpression(ThisParser, precedence))

\* `= a`: the expression statement that starts at `=` has been parsed
C13_Witness ==
    /\ pc = "parsed"
    /\ InputWords = <<<<"=">>, <<"a">>>>
    /\ curToken = Token("ASSIGN", <<"=">>)
    /\ peekToken = Token("IDENT", <<"a">>)
    /\ stmt.Expression = NilExpr
    /\ errors = <<NoPrefixMsg("ASSIGN")>>

-----------------------------------------------------------------------------
(* C14: two-token window: in every parser state reachable after New,       *)
(* peekToken is the token the Lexer produced immediately after the one in  *)
(* curToken; each nextToken pulls exactly one token from the Lexer, and    *)
(* the values of curToken during ParseProgram are the Lexer's tokens in    *)
(* order, none skipped and none visited twice before end-of-input.         *)
RECURSIVE Scan(_, _)
Scan(lx, k) ==         \* the tokens of k calls of NextToken, up to a panic
    IF k = 0 \/ NextToken(lx).panic THEN <<>>
    ELSE <<NextToken(lx).tok>> \o Scan(NextToken(lx).l, k - 1)

\* the first k tokens of a text, scanned by a Lexer of their own
TokensOf(input, k) == Scan(NewLexer(input), k)

\* New has returned: it makes the first two calls of nextToken
AfterNew == pc # "start" /\ (pc = "panic" => advances > 2)

C14_TwoTokenWindow ==
    AfterNew =>
        /\ pc # "panic"
        /\ Len(TokensOf(l.input, advances)) = advances
        /\ advances >= 2
        /\ curToken = TokensOf(l.input, advances)[advances - 1]
        /\ peekToken = TokensOf(l.input, advances)[advances]

-----------------------------------------------------------------------------
(* C15: the diagnostics list is append-only: across every step of New and  *)
(* ParseProgram the errors list is an extension of its earlier value, so   *)
(* Errors() is in the order in which the failures were detected.           *)
Extends(new, old) ==
    /\ Len(old) <= Len(new)
    /\ SubSeq(new, 1, Len(old)) = old

C15_ErrorsAppendOnly == [][Extends(errors', errors)]_vars

\* `let = let 5` has been parsed: three failures, recorded as they were met
C15_Witness ==
    /\ pc = "done"
    /\ InputWords = <<LexLet, <<"=">>, LexLet, <<"5">>>>
    /\ errors = <<PeekErrorMsg("IDENT", "ASSIGN"), NoPrefixMsg("ASSIGN"),
                  PeekErrorMsg("IDENT", "INT")>>

-----------------------------------------------------------------------------
(* C16: every absent expression is accounted for by a diagnostic: if       *)
(* Errors() is empty when ParseProgram returns, every ExpressionStatement  *)
(* has a present Expression, every PrefixExpression a present Right, and   *)
(* every InfixExpression a present Left and Right.                         *)
RECURSIVE Present(_)
Present(exp) ==
    CASE exp.node = "nil" -> FALSE
      [] exp.node = "PrefixExpression" -> Present(exp.Right)
      [] exp.node = "InfixExpression" -> Present(exp.Left) /\ Present(exp.Right)
      [] OTHER -> TRUE

C16_AbsentMeansDiagnostic ==
    (pc = "done" /\ errors = <<>>)
        => \A i \in 1..Len(program) :
               program[i].node = "ExpressionStatement"
                   => ~program[i].nil /\ Present(program[i].Expression)

\* `- a + b` has been parsed without a diagnostic to ((-a) + b)
C16_Witness ==
    /\ pc = "done"
    /\ errors = <<>>
    /\ InputWords = <<<<"-">>, <<"a">>, <<"+">>, <<"b">>>>
    /\ Len(program) = 1
    /\ program[1].Expression.node = "InfixExpression"
    /\ program[1].Expression.Left.node = "PrefixExpression"
    /\ Present(program[1].Expression)

-----------------------------------------------------------------------------
(* C17: scanning is lossless: for every text without a NUL byte on which   *)
(* scanning reaches end-of-input, the literals of the tokens returned      *)
(* before the end-of-input token, one after the other, are the text        *)
(* without its whitespace characters (space, tab, newline, return).        *)
RECURSIVE StripWhitespace(_)
StripWhitespace(s) ==
    IF s = <<>> THEN <<>>
    ELSE IF s[1] \in Whitespace THEN StripWhitespace(Tail(s))
    ELSE <<s[1]>> \o StripWhitespace(Tail(s))

RECURSIVE Literals(_)
Literals(ts) ==        \* the literals of the tokens, one after the other
    IF ts = <<>> THEN <<>> ELSE ts[1].Literal \o Literals(Tail(ts))

C17_Lossless ==
    (pc = "scanning" /\ tok.Type = "EOF" /\ NoNul(l.input))
        => /\ Len(TokensOf(l.input, advances)) = advances
           /\ TokensOf(l.input, advances)[advances] = tok
           /\ Literals(TokensOf(l.input, advances)) = StripWhitespace(l.input)

=============================================================================
